---- MODULE Spec2Model ----
(***************************************************************************)
(* SmartCards backend: credential store, password hasher, token service,  *)
(* identity resolver, and the register / login / group / flashcard        *)
(* handlers that sit on top of them.                                       *)
(*                                                                         *)
(* Time is counted in ticks, TicksPerSecond of them to a second, so that   *)
(* the truncation of a datetime to whole seconds that the JWT library      *)
(* performs on "exp" and on "now" is visible.                              *)
(***************************************************************************)
EXTENDS Integers, FiniteSets, Sequences, TLC

VARIABLES
    users,        \* table "users": the Credential Store
    groups,       \* table "groups"
    flashcards,   \* table "flashcards"
    pending,      \* register requests between their lookup and their commit
    held,         \* the token the client was given last, with the instant of issue
    registered,   \* the successful register responses since the tables were created
    now,          \* the clock, in ticks
    SECRET_KEY,   \* the process-wide signing key
    nextId,       \* the next fresh uuid of a user
    nextGroupId,  \* the next fresh uuid of a group
    resp          \* the last response sent, with its request

vars == <<users, groups, flashcards, pending, held, registered, now,
          SECRET_KEY, nextId, nextGroupId, resp>>

-----------------------------------------------------------------------------
(* Bounds of the model *)

TicksPerSecond == 2
MaxIds == 2
MaxGroups == 1

(* Program constants *)

ACCESS_TOKEN_EXPIRE_MINUTES == 60
DEFAULT_EXPIRE_MINUTES == 15
CARDS_PER_UPLOAD == 3

DEFAULT_SECRET_KEY == "super_secret_key_123"

-----------------------------------------------------------------------------
(* Input sets *)

Emails == {"a@x.com", "b@x.com"}
Passwords == {"pw1", "pw2"}
FullNames == {"None"}
Salts == {"s1"}
Keys == {DEFAULT_SECRET_KEY, "other_key"}
Filenames == {"f.pdf"}
\* Texts are tuples of words; an optional text is <<>> or <<text>>.
Questions == {<<>>, << <<"Q">> >>}
Answers == {<<>>, << <<"A">> >>}
GroupIds == 1..(MaxGroups + 1)
CardIds == {<<g, i>> : g \in GroupIds, i \in 1..CARDS_PER_UPLOAD}

\* Python's None where a record (a row, a payload) is expected.
None == [none |-> TRUE]

\* timedelta(minutes=m), in ticks.
Minutes(m) == m * 60 * TicksPerSecond

\* timegm(dt.utctimetuple()): a datetime truncated to whole seconds.
Seconds(t) == t \div TicksPerSecond

\* The instants the clock takes: the first two ticks, and the ticks from the
\* end of the login validity window of a token issued at tick 0 to the next
\* whole second.
Instants ==
    {0, 1} \cup
    {Minutes(ACCESS_TOKEN_EXPIRE_MINUTES) + k : k \in 0..TicksPerSecond}

-----------------------------------------------------------------------------
(* Password hasher *)

hash_password(password, salt) ==
    [scheme |-> "bcrypt", salt |-> salt, digest |-> <<salt, password>>]

verify_password(plain, hashed) ==
    hashed.digest = <<hashed.salt, plain>>

-----------------------------------------------------------------------------
(* Token service *)

\* jwt.encode: datetime claims become whole seconds, then the claims are
\* signed with the key.
jwt_encode(claims, key) ==
    [claims |-> IF "exp" \in DOMAIN claims
                THEN [claims EXCEPT !.exp = Seconds(@)]
                ELSE claims,
     key |-> key]

\* expires_delta is <<>> for None and <<d>> for a timedelta of d ticks;
\* "expires_delta or timedelta(minutes=15)" takes the default for every
\* falsy value: None and timedelta(0).
create_access_token(data, expires_delta, t, key) ==
    LET delta == IF expires_delta # <<>> /\ expires_delta[1] # 0
                 THEN expires_delta[1]
                 ELSE Minutes(DEFAULT_EXPIRE_MINUTES)
        expire == t + delta
        to_encode == [exp |-> expire] @@ data
    IN jwt_encode(to_encode, key)

Malformed == [garbage |-> "not.a.jwt"]

\* Mutant: jwt.decode that does not look at "exp".
jwt_decode_noexp(token, key, t) ==
    IF "claims" \notin DOMAIN token THEN [ok |-> FALSE, payload |-> None]
    ELSE IF token.key # key THEN [ok |-> FALSE, payload |-> None]
    ELSE [ok |-> TRUE, payload |-> token.claims]

\* Mutant: jwt.decode that does not verify the signature.
jwt_decode_nosig(token, key, t) ==
    IF "claims" \notin DOMAIN token THEN [ok |-> FALSE, payload |-> None]
    ELSE IF "exp" \in DOMAIN token.claims /\ token.claims.exp < Seconds(t)
         THEN [ok |-> FALSE, payload |-> None]
    ELSE [ok |-> TRUE, payload |-> token.claims]

\* jwt.decode: the payload, or JWTError for a token that does not parse,
\* whose signature does not verify under the key, or whose "exp" claim,
\* when it carries one, lies before the current whole second.
jwt_decode(token, key, t) ==
    IF "claims" \notin DOMAIN token THEN [ok |-> FALSE, payload |-> None]
    ELSE IF token.key # key THEN [ok |-> FALSE, payload |-> None]
    ELSE IF "exp" \in DOMAIN token.claims /\ token.claims.exp < Seconds(t)
         THEN [ok |-> FALSE, payload |-> None]
    ELSE [ok |-> TRUE, payload |-> token.claims]

\* payload.get("sub")
payload_get_sub(payload) ==
    IF "sub" \in DOMAIN payload THEN [value |-> payload.sub] ELSE None

-----------------------------------------------------------------------------
(* Credential store *)

\* Mutant: the lookup filters on the wrong column and finds nothing.
get_user_by_email_wrong_column(email, db) ==
    IF \E u \in db : u.full_name = email
    THEN CHOOSE u \in db : u.full_name = email
    ELSE None

get_user_by_email(email, db) ==
    IF \E u \in db : u.email = email
    THEN CHOOSE u \in db : u.email = email
    ELSE None

-----------------------------------------------------------------------------
(* Responses *)

HTTPException(status_code, detail, headers) ==
    [status |-> status_code, detail |-> detail, headers |-> headers]

credentials_exception ==
    HTTPException(401, "Invalid token", {<<"WWW-Authenticate", "Bearer">>})

login_exception == HTTPException(401, "Invalid credentials", {})

register_exception == HTTPException(400, "User already exists", {})

\* An IntegrityError that no handler catches.
server_error == HTTPException(500, "Internal Server Error", {})

Error(op, req, exc) ==
    [op |-> op, req |-> req, status |-> exc.status, detail |-> exc.detail,
     headers |-> exc.headers, user |-> None, body |-> None]

Ok(op, req, user, body) ==
    [op |-> op, req |-> req, status |-> 200, detail |-> "", headers |-> {},
     user |-> user, body |-> body]

-----------------------------------------------------------------------------
(* Identity resolver *)

\* Mutant: a token whose user is gone gets an error of its own.
get_current_user_distinct(token, db, key, t) ==
    LET decoded == jwt_decode(token, key, t)
        email == IF decoded.ok THEN payload_get_sub(decoded.payload) ELSE None
        user == IF email # None THEN get_user_by_email(email.value, db)
                ELSE None
    IN IF ~decoded.ok THEN [ok |-> FALSE, exc |-> credentials_exception]
       ELSE IF email = None THEN [ok |-> FALSE, exc |-> credentials_exception]
       ELSE IF user = None
            THEN [ok |-> FALSE,
                  exc |-> HTTPException(404, "User not found", {})]
       ELSE [ok |-> TRUE, user |-> user]

get_current_user(token, db, key, t) ==
    LET decoded == jwt_decode(token, key, t)
        email == IF decoded.ok THEN payload_get_sub(decoded.payload) ELSE None
        user == IF email # None THEN get_user_by_email(email.value, db)
                ELSE None
    IN IF ~decoded.ok THEN [ok |-> FALSE, exc |-> credentials_exception]
       ELSE IF email = None THEN [ok |-> FALSE, exc |-> credentials_exception]
       ELSE IF user = None THEN [ok |-> FALSE, exc |-> credentials_exception]
       ELSE [ok |-> TRUE, user |-> user]

-----------------------------------------------------------------------------
(* Requests the clients make *)

\* Tokens a client may present without having logged in: a string that is
\* no token, and claims signed with either key, with and without a subject
\* and an expiry (a past one, a future one).
PastExp == Seconds(0)
FutureExp == Seconds(Minutes(ACCESS_TOKEN_EXPIRE_MINUTES)) + 5

ForgedClaims ==
    {[sub |-> "a@x.com", exp |-> PastExp],
     [sub |-> "a@x.com", exp |-> FutureExp],
     [sub |-> "a@x.com"],
     [sub |-> "b@x.com"],
     [exp |-> FutureExp]}

ForgedTokens ==
    {Malformed} \cup {[claims |-> c, key |-> k] : c \in ForgedClaims, k \in Keys}

Tokens == {h.token : h \in held} \cup ForgedTokens

NoResponse ==
    [op |-> "none", req |-> None, status |-> 0, detail |-> "", headers |-> {},
     user |-> None, body |-> None]

-----------------------------------------------------------------------------
(* State machine *)

Init ==
    /\ users = {}
    /\ groups = {}
    /\ flashcards = {}
    /\ pending = {}
    /\ held = {}
    /\ registered = {}
    /\ now = 0
    /\ SECRET_KEY = DEFAULT_SECRET_KEY
    /\ nextId = 1
    /\ nextGroupId = 1
    /\ resp = NoResponse

\* POST /startup: drop_all, then create_all.
on_startup ==
    /\ users' = {}
    /\ groups' = {}
    /\ flashcards' = {}
    /\ registered' = {}
    /\ resp' = Ok("startup", None, None, None)
    /\ UNCHANGED <<pending, held, now, SECRET_KEY, nextId, nextGroupId>>

\* The clock advances.
Tick(t) ==
    /\ t > now
    /\ now' = t
    /\ UNCHANGED <<users, groups, flashcards, pending, held, registered,
                   SECRET_KEY, nextId, nextGroupId, resp>>

\* Mutant: register without the lookup by email.
register_user_lookup_unchecked(email, password, full_name, salt) ==
    LET req == [email |-> email, password |-> password, full_name |-> full_name]
        new_user == [id |-> nextId, email |-> email,
                     password |-> hash_password(password, salt),
                     full_name |-> full_name]
    IN /\ nextId <= MaxIds
       /\ pending' = pending \cup {[req |-> req, new_user |-> new_user]}
       /\ nextId' = nextId + 1
       /\ UNCHANGED <<users, groups, flashcards, held, registered, now,
                      SECRET_KEY, nextGroupId, resp>>

\* POST /auth/register, up to db.add(new_user): the lookup by email, the
\* Conflict when it finds a row, else the new row with its fresh id and
\* hashed password, not yet committed.
register_user_lookup(email, password, full_name, salt) ==
    LET req == [email |-> email, password |-> password, full_name |-> full_name]
        existing == get_user_by_email(email, users)
        new_user == [id |-> nextId, email |-> email,
                     password |-> hash_password(password, salt),
                     full_name |-> full_name]
    IN IF existing # None
       THEN /\ resp' = Error("register", req, register_exception)
            /\ UNCHANGED <<users, groups, flashcards, pending, held, registered,
                           now, SECRET_KEY, nextId, nextGroupId>>
       ELSE /\ nextId <= MaxIds
            /\ pending' = pending \cup {[req |-> req, new_user |-> new_user]}
            /\ nextId' = nextId + 1
            /\ UNCHANGED <<users, groups, flashcards, held, registered, now,
                           SECRET_KEY, nextGroupId, resp>>

\* POST /auth/register, from db.commit(): the INSERT, which the unique
\* constraint on users.email refuses with an IntegrityError that nothing
\* catches when a row with that email was committed in between.
register_user_commit(p) ==
    LET new_user == p.new_user
    IN /\ p \in pending
       /\ pending' = pending \ {p}
       /\ IF \E u \in users : u.email = new_user.email
          THEN /\ resp' = Error("register", p.req, server_error)
               /\ UNCHANGED <<users, registered>>
          ELSE /\ users' = users \cup {new_user}
               /\ registered' = registered \cup
                      {[email |-> new_user.email, password |-> p.req.password,
                        id |-> new_user.id]}
               /\ resp' = Ok("register", p.req, None,
                             [id |-> new_user.id, email |-> new_user.email,
                              full_name |-> new_user.full_name])
       /\ UNCHANGED <<groups, flashcards, held, now, SECRET_KEY, nextId,
                      nextGroupId>>

\* Mutant: login tells an unknown email from a wrong password.
login_response_leaky(username, password, db, t, key) ==
    LET req == [username |-> username, password |-> password]
        user == get_user_by_email(username, db)
    IN IF user = None
       THEN Error("login", req, HTTPException(404, "User not found", {}))
       ELSE IF ~verify_password(password, user.password)
       THEN Error("login", req, login_exception)
       ELSE Ok("login", req, None,
               [access_token |->
                    create_access_token([sub |-> user.email],
                        <<Minutes(ACCESS_TOKEN_EXPIRE_MINUTES)>>, t, key),
                token_type |-> "bearer"])

\* Mutant: login refuses with 400 instead of 401.
login_response_bad_request(username, password, db, t, key) ==
    LET req == [username |-> username, password |-> password]
        user == get_user_by_email(username, db)
    IN IF user = None \/ ~verify_password(password, user.password)
       THEN Error("login", req, HTTPException(400, "Invalid credentials", {}))
       ELSE Ok("login", req, None,
               [access_token |->
                    create_access_token([sub |-> user.email],
                        <<Minutes(ACCESS_TOKEN_EXPIRE_MINUTES)>>, t, key),
                token_type |-> "bearer"])

\* POST /auth/login: the response.
login_response(username, password, db, t, key) ==
    LET req == [username |-> username, password |-> password]
        user == get_user_by_email(username, db)
    IN IF user = None \/ ~verify_password(password, user.password)
       THEN Error("login", req, login_exception)
       ELSE Ok("login", req, None,
               [access_token |->
                    create_access_token([sub |-> user.email],
                        <<Minutes(ACCESS_TOKEN_EXPIRE_MINUTES)>>, t, key),
                token_type |-> "bearer"])

\* POST /auth/login; the client keeps the token it is given.
login_user(username, password) ==
    /\ resp' = login_response(username, password, users, now, SECRET_KEY)
    /\ held' = IF resp'.status = 200
               THEN {[token |-> resp'.body.access_token, iat |-> now]}
               ELSE held
    /\ UNCHANGED <<users, groups, flashcards, pending, registered, now,
                   SECRET_KEY, nextId, nextGroupId>>

\* GET /groups
get_user_groups(token) ==
    LET req == [token |-> token]
        current == get_current_user(token, users, SECRET_KEY, now)
    IN /\ resp' = IF ~current.ok
                  THEN Error("get_user_groups", req, current.exc)
                  ELSE Ok("get_user_groups", req, current.user,
                          [groups |-> {g \in groups : g.user_id = current.user.id}])
       /\ UNCHANGED <<users, groups, flashcards, pending, held, registered,
                      now, SECRET_KEY, nextId, nextGroupId>>

\* Each protected handler starts with Depends(get_current_user) and fails
\* with its exception.
Unauthorized(op, req, current) ==
    /\ ~current.ok
    /\ resp' = Error(op, req, current.exc)
    /\ UNCHANGED <<users, groups, flashcards, pending, held, registered,
                   now, SECRET_KEY, nextId, nextGroupId>>

\* GET /flashcards/group/{group_id}
get_flashcards_by_group(token, group_id) ==
    LET req == [token |-> token, group_id |-> group_id]
        current == get_current_user(token, users, SECRET_KEY, now)
    IN \/ Unauthorized("get_flashcards_by_group", req, current)
       \/ /\ current.ok
          /\ resp' = Ok("get_flashcards_by_group", req, current.user,
                        [cards |-> {c \in flashcards :
                                      /\ c.group_id = group_id
                                      /\ c.user_id = current.user.id}])
          /\ UNCHANGED <<users, groups, flashcards, pending, held, registered,
                         now, SECRET_KEY, nextId, nextGroupId>>

\* POST /groups/upload: one group and CARDS_PER_UPLOAD placeholder cards.
upload_file(token, filename) ==
    LET req == [token |-> token, filename |-> filename]
        current == get_current_user(token, users, SECRET_KEY, now)
        group_id == nextGroupId
    IN \/ Unauthorized("upload_file", req, current)
       \/ /\ current.ok
          /\ nextGroupId <= MaxGroups
          /\ groups' = groups \cup
                 {[id |-> group_id, filename |-> filename,
                   user_id |-> current.user.id, created_at |-> now]}
          /\ flashcards' = flashcards \cup
                 {[id |-> <<group_id, i>>,
                   question |-> <<"Question", i, filename>>,
                   answer |-> <<"Answer", i>>,
                   user_id |-> current.user.id,
                   group_id |-> group_id] : i \in 1..CARDS_PER_UPLOAD}
          /\ nextGroupId' = nextGroupId + 1
          /\ resp' = Ok("upload_file", req, current.user,
                        [group_id |-> group_id, filename |-> filename,
                         message |-> "File processed successfully"])
          /\ UNCHANGED <<users, pending, held, registered, now, SECRET_KEY,
                         nextId>>

\* DELETE /groups/{group_id} without the delete of the group's flashcards.
delete_group_keep_cards(token, group_id) ==
    LET req == [token |-> token, group_id |-> group_id]
        current == get_current_user(token, users, SECRET_KEY, now)
        found == {g \in groups : g.id = group_id}
    IN \/ Unauthorized("delete_group", req, current)
       \/ /\ current.ok
          /\ IF found = {} \/ \E g \in found : g.user_id # current.user.id
             THEN /\ resp' = Error("delete_group", req,
                                   HTTPException(404, "Group not found", {}))
                  /\ UNCHANGED groups
             ELSE /\ groups' = {g \in groups : g.id # group_id}
                  /\ resp' = Ok("delete_group", req, current.user,
                                [detail |-> "Group deleted"])
          /\ UNCHANGED <<users, flashcards, pending, held, registered, now,
                         SECRET_KEY, nextId, nextGroupId>>

\* DELETE /groups/{group_id}
delete_group(token, group_id) ==
    LET req == [token |-> token, group_id |-> group_id]
        current == get_current_user(token, users, SECRET_KEY, now)
        found == {g \in groups : g.id = group_id}
    IN \/ Unauthorized("delete_group", req, current)
       \/ /\ current.ok
          /\ IF found = {} \/ \E g \in found : g.user_id # current.user.id
             THEN /\ resp' = Error("delete_group", req,
                                   HTTPException(404, "Group not found", {}))
                  /\ UNCHANGED <<groups, flashcards>>
             ELSE /\ flashcards' = {c \in flashcards : c.group_id # group_id}
                  /\ groups' = {g \in groups : g.id # group_id}
                  /\ resp' = Ok("delete_group", req, current.user,
                                [detail |-> "Group deleted"])
          /\ UNCHANGED <<users, pending, held, registered, now, SECRET_KEY,
                         nextId, nextGroupId>>

\* DELETE /flashcards/{card_id} without the comparison of the card's user_id
\* with the caller's id.
delete_flashcard_any_owner(token, card_id) ==
    LET req == [token |-> token, card_id |-> card_id]
        current == get_current_user(token, users, SECRET_KEY, now)
        found == {c \in flashcards : c.id = card_id}
    IN \/ Unauthorized("delete_flashcard", req, current)
       \/ /\ current.ok
          /\ IF found = {}
             THEN /\ resp' = Error("delete_flashcard", req,
                                   HTTPException(404, "Card not found", {}))
                  /\ UNCHANGED flashcards
             ELSE /\ flashcards' = {c \in flashcards : c.id # card_id}
                  /\ resp' = Ok("delete_flashcard", req, current.user,
                                [detail |-> "Card deleted"])
          /\ UNCHANGED <<users, groups, pending, held, registered, now,
                         SECRET_KEY, nextId, nextGroupId>>

\* DELETE /flashcards/{card_id}
delete_flashcard(token, card_id) ==
    LET req == [token |-> token, card_id |-> card_id]
        current == get_current_user(token, users, SECRET_KEY, now)
        found == {c \in flashcards : c.id = card_id}
    IN \/ Unauthorized("delete_flashcard", req, current)
       \/ /\ current.ok
          /\ IF found = {} \/ \E c \in found : c.user_id # current.user.id
             THEN /\ resp' = Error("delete_flashcard", req,
                                   HTTPException(404, "Card not found", {}))
                  /\ UNCHANGED flashcards
             ELSE /\ flashcards' = {c \in flashcards : c.id # card_id}
                  /\ resp' = Ok("delete_flashcard", req, current.user,
                                [detail |-> "Card deleted"])
          /\ UNCHANGED <<users, groups, pending, held, registered, now,
                         SECRET_KEY, nextId, nextGroupId>>

\* PUT /flashcards/{card_id}; question and answer are <<>> for None and
\* <<text>> for a text.
update_flashcard(token, card_id, question, answer) ==
    LET req == [token |-> token, card_id |-> card_id, question |-> question,
                answer |-> answer]
        current == get_current_user(token, users, SECRET_KEY, now)
        found == {c \in flashcards : c.id = card_id}
    IN \/ Unauthorized("update_flashcard", req, current)
       \/ /\ current.ok
          /\ IF found = {} \/ \E c \in found : c.user_id # current.user.id
             THEN /\ resp' = Error("update_flashcard", req,
                                   HTTPException(404, "Card not found", {}))
                  /\ UNCHANGED flashcards
             ELSE LET card == CHOOSE c \in found : TRUE
                      updated ==
                          [card EXCEPT
                             !.question = IF question # <<>> THEN question[1]
                                          ELSE @,
                             !.answer = IF answer # <<>> THEN answer[1] ELSE @]
                  IN /\ flashcards' = (flashcards \ {card}) \cup {updated}
                     /\ resp' = Ok("update_flashcard", req, current.user, updated)
          /\ UNCHANGED <<users, groups, pending, held, registered, now,
                         SECRET_KEY, nextId, nextGroupId>>

Next ==
    \/ on_startup
    \/ \E t \in Instants : Tick(t)
    \/ \E e \in Emails, pw \in Passwords, fn \in FullNames, s \in Salts :
          register_user_lookup(e, pw, fn, s)
    \/ \E p \in pending : register_user_commit(p)
    \/ \E e \in Emails, pw \in Passwords : login_user(e, pw)
    \/ \E tok \in Tokens : get_user_groups(tok)

Spec == Init /\ [][Next]_vars

\* The process is started again with SECRET_KEY read from the environment:
\* the requests in flight are lost, the database and the clients' tokens stay.
Restart(key) ==
    /\ SECRET_KEY' = key
    /\ pending' = {}
    /\ UNCHANGED <<users, groups, flashcards, held, registered, now, nextId,
                   nextGroupId, resp>>

NextRotate ==
    \/ Next
    \/ \E k \in Keys : Restart(k)

SpecRotate == Init /\ [][NextRotate]_vars

\* The token service alone: create_access_token called with every subject
\* and every optional duration, at every instant.
Subjects == {[sub |-> e] : e \in Emails} \cup {<<>>}
Durations ==
    {<<>>, <<0>>, <<1>>, <<TicksPerSecond>>,
     <<Minutes(DEFAULT_EXPIRE_MINUTES)>>, <<Minutes(ACCESS_TOKEN_EXPIRE_MINUTES)>>}

Issue(data, expires_delta) ==
    /\ resp' = Ok("create_access_token",
                  [data |-> data, expires_delta |-> expires_delta, now |-> now],
                  None,
                  [token |-> create_access_token(data, expires_delta, now,
                                                 SECRET_KEY)])
    /\ UNCHANGED <<users, groups, flashcards, pending, held, registered, now,
                   SECRET_KEY, nextId, nextGroupId>>

InitIssue ==
    /\ Init
    /\ now \in Instants

NextIssue ==
    \/ \E t \in Instants : Tick(t)
    \/ \E d \in Subjects, x \in Durations : Issue(d, x)

SpecIssue == InitIssue /\ [][NextIssue]_vars

\* Every handler, the protected ones called with the tokens that login gave.
HeldTokens == {h.token : h \in held}

NextAll ==
    \/ on_startup
    \/ Tick(Minutes(ACCESS_TOKEN_EXPIRE_MINUTES) + TicksPerSecond)
    \/ \E e \in Emails, fn \in FullNames, s \in Salts :
          register_user_lookup(e, "pw1", fn, s)
    \/ \E p \in pending : register_user_commit(p)
    \/ \E e \in Emails, pw \in Passwords : login_user(e, pw)
    \/ \E tok \in HeldTokens : get_user_groups(tok)
    \/ \E tok \in HeldTokens, g \in GroupIds : get_flashcards_by_group(tok, g)
    \/ \E tok \in HeldTokens, f \in Filenames : upload_file(tok, f)
    \/ \E tok \in HeldTokens, g \in GroupIds : delete_group(tok, g)
    \/ \E tok \in HeldTokens, g \in GroupIds : delete_flashcard(tok, <<g, 1>>)
    \/ \E tok \in HeldTokens, g \in GroupIds :
          update_flashcard(tok, <<g, 1>>, << <<"Q">> >>, <<>>)

SpecAll == Init /\ [][NextAll]_vars

-----------------------------------------------------------------------------
(* Properties *)

\* What a client sees of a response.
Shape(r) ==
    [status |-> r.status, detail |-> r.detail, headers |-> r.headers,
     body |-> r.body]

Exists(email) == \E u \in users : u.email = email

C1_State ==
    \A e \in Emails :
        Cardinality({u \in users : u.email = e}) =
            IF \E r \in registered : r.email = e THEN 1 ELSE 0

C1_Step ==
    /\ \A e \in Emails, pw \in Passwords, fn \in FullNames, s \in Salts :
          (register_user_lookup(e, pw, fn, s) /\ Exists(e)) =>
              /\ resp'.status = 400
              /\ resp'.detail = "User already exists"
              /\ users' = users
    /\ \A p \in pending :
          (register_user_commit(p) /\ ~Exists(p.new_user.email)) =>
              /\ resp'.status = 200
              /\ resp'.body.email = p.req.email
              /\ users' = users \cup {p.new_user}
    /\ (resp' # resp /\ resp'.op = "register" /\ resp'.status # 200) =>
          users' = users

\* C1: a register call for an email that is in the store answers 400 "User
\* already exists" and one for an email that is not, and still is not at its
\* commit, succeeds and inserts its row; the store holds exactly one row for
\* each registered email and none for any other; a rejected register leaves
\* the store unchanged.
C1_RegisterOnce == []C1_State /\ [][C1_Step]_vars

\* The second register of an email has been answered with the Conflict, and
\* the store holds the one row of the first.
C1_Witness ==
    /\ resp.op = "register"
    /\ resp.status = 400
    /\ \E r \in registered : r.email = resp.req.email
    /\ Cardinality({u \in users : u.email = resp.req.email}) = 1

\* C2: a register request that performed its lookup before another request
\* for the same email committed is answered with the Conflict (400 "User
\* already exists") at its own commit, and creates no second user.
C2_RaceLoserConflict ==
    [][\A p \in pending :
          (register_user_commit(p) /\ Exists(p.new_user.email)) =>
              /\ resp' = Error("register", p.req, register_exception)
              /\ users' = users]_vars

\* C3: in every store state, a login with an existing email and a wrong
\* password and a login with an email that is not in the store get the same
\* response (status, detail, headers, body), a 401; and every failed login
\* that was answered got that response.
C3_LoginUniform ==
    /\ \A e1, e2 \in Emails, p1, p2 \in Passwords :
          LET user == get_user_by_email(e1, users)
              r1 == login_response(e1, p1, users, now, SECRET_KEY)
              r2 == login_response(e2, p2, users, now, SECRET_KEY)
          IN (user # None /\ ~verify_password(p1, user.password) /\ ~Exists(e2))
                 => /\ Shape(r1) = Shape(r2)
                    /\ r1.status = 401
    /\ (resp.op = "login" /\ resp.status # 200) =>
          Shape(resp) = [status |-> 401, detail |-> "Invalid credentials",
                         headers |-> {}, body |-> None]

\* A login with a wrong password for an existing email has been refused
\* while the other email is not in the store.
C3_Witness ==
    /\ resp.op = "login"
    /\ resp.status = 401
    /\ \E u \in users : /\ u.email = resp.req.username
                        /\ ~verify_password(resp.req.password, u.password)
    /\ \E e \in Emails : ~Exists(e)

Validity == Minutes(ACCESS_TOKEN_EXPIRE_MINUTES)

C5_State ==
    \A h \in held :
        LET c == get_current_user(h.token, users, SECRET_KEY, now)
        IN Exists(h.token.claims.sub) =>
               /\ now < h.iat + Validity =>
                      (c.ok /\ c.user.email = h.token.claims.sub)
               /\ Seconds(now) > Seconds(h.iat + Validity) => ~c.ok

C5_Step ==
    \A h \in held :
        (h \in held' /\ ~jwt_decode(h.token, SECRET_KEY, now).ok) =>
            ~jwt_decode(h.token, SECRET_KEY', now').ok

C6_State ==
    \A tok \in Tokens :
        ("claims" \in DOMAIN tok /\ tok.key # SECRET_KEY) =>
            ~get_current_user(tok, users, SECRET_KEY, now).ok

C6_Step ==
    \A k \in Keys :
        (Restart(k) /\ k # SECRET_KEY) =>
            \A h \in held :
                h.token.key = SECRET_KEY =>
                    ~get_current_user(h.token, users', SECRET_KEY', now').ok

\* C6: a token signed with another key than the current SECRET_KEY is
\* rejected whatever its claims; when the process comes up with another key,
\* the tokens signed with the key it replaces are rejected.
C6_WrongKey == []C6_State /\ [][C6_Step]_vars

\* The token login gave has been refused after the key changed, unexpired
\* and its user in the store.
C6_Witness ==
    /\ resp.op = "get_user_groups"
    /\ resp.status = 401
    /\ \E h \in held :
          /\ resp.req.token = h.token
          /\ h.token.key # SECRET_KEY
          /\ Exists(h.token.claims.sub)
          /\ Seconds(now) <= h.token.claims.exp

\* A token the verification must refuse, as claimed: malformed, signed with
\* another key, expired, or without an expiry claim.
Invalid(tok) ==
    \/ "claims" \notin DOMAIN tok
    \/ tok.key # SECRET_KEY
    \/ "exp" \notin DOMAIN tok.claims
    \/ tok.claims.exp < Seconds(now)

\* C7: a protected request with a token that is malformed, fails the
\* signature check, is expired or carries no expiry claim is answered 401.
C7_InvalidRejected ==
    [][\A tok \in Tokens :
          (get_user_groups(tok) /\ Invalid(tok)) => resp'.status = 401]_vars

\* C8: every registered (email, password) logs in with a bearer token, and
\* the token the client holds for a registered email resolves, before its
\* expiry, to the user with the id the registration returned.
C8_EndToEnd ==
    /\ \A r \in registered :
          LET l == login_response(r.email, r.password, users, now, SECRET_KEY)
          IN /\ l.status = 200
             /\ "access_token" \in DOMAIN l.body
             /\ l.body.token_type = "bearer"
    /\ \A h \in held, r \in registered :
          LET c == get_current_user(h.token, users, SECRET_KEY, now)
          IN (h.token.claims.sub = r.email /\ now < h.iat + Validity) =>
                 (c.ok /\ c.user.id = r.id)

\* A protected request has resolved to a registered user's id while another
\* user is registered and a group has been uploaded.
C8_Witness ==
    /\ resp.op \in {"get_flashcards_by_group", "update_flashcard"}
    /\ resp.status = 200
    /\ \E r \in registered : r.id = resp.user.id /\ r.email = resp.user.email
    /\ Cardinality(users) = 2
    /\ groups # {}

\* C9: a token that verifies but whose subject is not in the store gets the
\* error a token that does not verify gets (401, "Invalid token", the Bearer
\* challenge); a token resolves exactly when it verifies and its subject is
\* in the store now, and then to that row of the store.
C9_SameError ==
    \A tok \in Tokens :
        LET d == jwt_decode(tok, SECRET_KEY, now)
            c == get_current_user(tok, users, SECRET_KEY, now)
            bad == get_current_user(Malformed, users, SECRET_KEY, now)
        IN /\ ~bad.ok
           /\ bad.exc = [status |-> 401, detail |-> "Invalid token",
                         headers |-> {<<"WWW-Authenticate", "Bearer">>}]
           /\ (d.ok /\ "sub" \in DOMAIN d.payload) =>
                 IF Exists(d.payload.sub)
                 THEN c.ok /\ c.user \in users /\ c.user.email = d.payload.sub
                 ELSE ~c.ok /\ c.exc = bad.exc

\* The token login gave still verifies, its user is gone, and it has been
\* refused with the resolver's error.
C9_Witness ==
    /\ resp.op = "get_user_groups"
    /\ Shape(resp) = [status |-> 401, detail |-> "Invalid token",
                      headers |-> {<<"WWW-Authenticate", "Bearer">>},
                      body |-> None]
    /\ \E h \in held :
          /\ resp.req.token = h.token
          /\ jwt_decode(h.token, SECRET_KEY, now).ok
          /\ ~Exists(h.token.claims.sub)

\* C10: the expiry of an issued token is the instant of issue plus the
\* duration passed, a zero duration included, and plus 15 minutes when none
\* is passed; the tokens login issues expire 60 minutes after issue.
C10_ExpiryIsNowPlusDuration ==
    /\ resp.op = "create_access_token" =>
          LET d == resp.req.expires_delta
              exp == resp.body.token.claims.exp
          IN exp = Seconds(resp.req.now +
                           (IF d = <<>> THEN Minutes(DEFAULT_EXPIRE_MINUTES)
                            ELSE d[1]))
    /\ \A h \in held :
          h.token.claims.exp = Seconds(h.iat + Minutes(ACCESS_TOKEN_EXPIRE_MINUTES))

\* The groups and the flashcards of the tables gs and cs that user uid owns.
OwnedBy(uid, gs, cs) ==
    <<{g \in gs : g.user_id = uid}, {c \in cs : c.user_id = uid}>>

\* The caller resolved, and no row of the table with that id is the caller's.
NotOwn(current, table, id) ==
    /\ current.ok
    /\ ~\E x \in table : x.id = id /\ x.user_id = current.user.id

NotFound(r, op, detail) ==
    /\ r.op = op
    /\ Shape(r) = [status |-> 404, detail |-> detail, headers |-> {},
                   body |-> None]

\* A list response holds only rows whose user_id is the caller's id (and,
\* for the cards, whose group is the one asked for).
C11_State ==
    /\ (resp.op = "get_user_groups" /\ resp.status = 200) =>
          \A g \in resp.body.groups : g.user_id = resp.user.id
    /\ (resp.op = "get_flashcards_by_group" /\ resp.status = 200) =>
          \A c \in resp.body.cards :
              c.user_id = resp.user.id /\ c.group_id = resp.req.group_id

\* A delete or an update of an id that is missing or another user's answers
\* 404 and changes neither table; whenever the rows a stored user owns
\* change, the step is a successful request resolved to that user.
C11_Step ==
    /\ resp'.op = "delete_group" =>
          LET tok == resp'.req.token
              id == resp'.req.group_id
              current == get_current_user(tok, users, SECRET_KEY, now)
          IN (delete_group(tok, id) /\ NotOwn(current, groups, id)) =>
                 /\ NotFound(resp', "delete_group", "Group not found")
                 /\ UNCHANGED <<groups, flashcards>>
    /\ resp'.op = "delete_flashcard" =>
          LET tok == resp'.req.token
              id == resp'.req.card_id
              current == get_current_user(tok, users, SECRET_KEY, now)
          IN (delete_flashcard(tok, id) /\ NotOwn(current, flashcards, id)) =>
                 /\ NotFound(resp', "delete_flashcard", "Card not found")
                 /\ UNCHANGED <<groups, flashcards>>
    /\ resp'.op = "update_flashcard" =>
          LET tok == resp'.req.token
              id == resp'.req.card_id
              current == get_current_user(tok, users, SECRET_KEY, now)
          IN (update_flashcard(tok, id, resp'.req.question, resp'.req.answer)
                /\ NotOwn(current, flashcards, id)) =>
                 /\ NotFound(resp', "update_flashcard", "Card not found")
                 /\ UNCHANGED <<groups, flashcards>>
    /\ \A u \in users' :
          OwnedBy(u.id, groups', flashcards') # OwnedBy(u.id, groups, flashcards) =>
              /\ resp'.status = 200
              /\ resp'.user = u
              /\ resp'.op \in {"upload_file", "delete_group", "delete_flashcard",
                               "update_flashcard"}

\* C11: deleting a group, deleting a flashcard or updating a flashcard whose
\* id does not exist or belongs to another user than the resolved caller
\* answers 404 and leaves groups and flashcards unchanged; the groups and
\* flashcards of a user are changed or removed only by requests resolved to
\* that user; the list endpoints return only rows the caller owns.
C11_OwnerOnly == []C11_State /\ [][C11_Step]_vars

\* A delete or an update has answered 404 for a row that exists and belongs
\* to another user than the one the request's token resolves to.
C11_Witness ==
    /\ resp.op \in {"delete_group", "delete_flashcard", "update_flashcard"}
    /\ resp.status = 404
    /\ LET current == get_current_user(resp.req.token, users, SECRET_KEY, now)
           target == IF resp.op = "delete_group"
                     THEN {g \in groups : g.id = resp.req.group_id}
                     ELSE {c \in flashcards : c.id = resp.req.card_id}
       IN /\ current.ok
          /\ target # {}
          /\ \A x \in target : x.user_id # current.user.id
          /\ Cardinality(flashcards) = CARDS_PER_UPLOAD

\* Every stored flashcard belongs to a stored group with the same owner.
C12_State ==
    \A c \in flashcards :
        \E g \in groups : g.id = c.group_id /\ g.user_id = c.user_id

\* A successful upload adds one group of the caller and CARDS_PER_UPLOAD
\* flashcards of the caller in that group, and removes nothing; a successful
\* delete_group removes the group and every flashcard of the group, and
\* nothing else.
C12_Step ==
    /\ (resp'.op = "upload_file" /\ resp'.status = 200) =>
          (upload_file(resp'.req.token, resp'.req.filename) =>
              /\ groups \subseteq groups'
              /\ flashcards \subseteq flashcards'
              /\ Cardinality(groups' \ groups) = 1
              /\ Cardinality(flashcards' \ flashcards) = 3
              /\ \A g \in groups' \ groups :
                    /\ g.id = resp'.body.group_id
                    /\ g.user_id = resp'.user.id
                    /\ \A x \in groups : x.id # g.id
                    /\ \A c \in flashcards' \ flashcards :
                          c.group_id = g.id /\ c.user_id = resp'.user.id)
    /\ (resp'.op = "delete_group" /\ resp'.status = 200) =>
          LET id == resp'.req.group_id
          IN delete_group(resp'.req.token, id) =>
                 /\ \E g \in groups : g.id = id
                 /\ groups' = {g \in groups : g.id # id}
                 /\ flashcards' = {c \in flashcards : c.group_id # id}
                 /\ \A c \in flashcards' : c.group_id # id

\* C12: after any sequence of upload, delete_group, delete_flashcard and
\* update_flashcard calls by any users, every stored flashcard belongs to a
\* group that still exists and has the same owner as that group; upload
\* creates one group with exactly three flashcards owned by the caller, and
\* delete_group removes the group together with all of its flashcards.
C12_ReferentialIntegrity == []C12_State /\ [][C12_Step]_vars

\* A group that upload created has been deleted by its owner, and neither
\* the group nor a flashcard of it is left.
C12_Witness ==
    /\ resp.op = "delete_group"
    /\ resp.status = 200
    /\ nextGroupId > resp.req.group_id
    /\ \A g \in groups : g.id # resp.req.group_id
    /\ \A c \in flashcards : c.group_id # resp.req.group_id

====
